---- MODULE Spec2Model ----
(***************************************************************************)
(* The reminder subsystem of the PayLagh Slack bot (src/main.py): the      *)
(* module-level registries PING_EXCLUDED_LIST, PING_TIMES_PER_PLAYER,      *)
(* PING_LIST and REMINDERS, the ledger loader and classifier, and the four *)
(* command handlers /ping, /ping_add, /ping_remove and /ping_adjust_time.  *)
(* A handler is followed step by step through its external calls (ledger   *)
(* fetch, roster fetch, reminders_add, chat_postMessage); an exception     *)
(* raised by one of them leaves the handler, which has no try/except.      *)
(***************************************************************************)
EXTENDS Integers, Sequences, FiniteSets, TLC

\* ------------------------------------------------------------ bounds
\* people rows of the spreadsheet, above the three footer rows
MaxLedger == 2
\* members returned by users_list
MaxRoster == 2
\* entries PING_LIST may reach
MaxPingList == 2
\* reminders the Slack workspace may hold
MaxSlack == 2

\* ------------------------------------------------------------ program constants
TEAM == "Ranelagh"
TREASURERS == <<"Noah Coyne-Tyrrell", "Louis Stewart", "Daniel Collins">>
TREASURER == "Louis Stewart"
DEFAULT_TIME == "next Monday at 15:00"
\* rows cut from the end of the sheet by get_people_data
FooterRows == 3

\* ------------------------------------------------------------ input domains
Names == {"Louis Stewart", "Ana"}
Actors == {"Louis Stewart", "Ana"}
Commands == {"ping", "ping_add", "ping_remove", "ping_adjust_time"}
Toggles == {"on", "off", "status"}

\* a currency cell is text, one character per element
DebitText == <<"€", "1", ",", "0", "0", "0">>
PaidText == <<"€", "9", "6", "0">>
Row(name, balance) == [Name |-> name, Balance |-> balance, Total |-> DebitText, Paid |-> PaidText]
SheetRows == { Row("Louis Stewart", <<"-", "€", "4", "0">>),
               Row("Louis Stewart", <<"€", "1", "0">>),
               Row("Ana", <<"-", "€", "4", "0">>),
               Row("Ana", <<"-", "€", "2", "0">>),
               Row("Ana", <<"€", "0">>),
               Row("Ana", <<"n", "/", "a">>) }
Footer == << [Name |-> "Total", Balance |-> <<"-", "€", "6", "0">>, Total |-> <<>>, Paid |-> <<>>],
             [Name |-> "Owed", Balance |-> <<>>, Total |-> <<>>, Paid |-> <<>>],
             [Name |-> "Prepaid", Balance |-> <<>>, Total |-> <<>>, Paid |-> <<>>] >>

SlackMembers == { [real_name |-> "Louis Stewart", id |-> "U1"],
                  [real_name |-> "Ana", id |-> "U2"] }

\* the text of /ping_adjust_time, with what info.split(",") makes of it
AdjustInfos == { [info |-> "Ana,every Friday at 9:00", parts |-> <<"Ana", "every Friday at 9:00">>],
                 [info |-> "Ana", parts |-> <<"Ana">>] }

SeqsUpTo(S, n) == UNION { [1..k -> S] : k \in 0..n }
Range(s) == { s[i] : i \in DOMAIN s }

\* ------------------------------------------------------------ Python values
\* the empty dict; a dict is a function on its keys
EmptyDict == [k \in {} |-> 0]
\* d[k] = v
DictSet(d, k, v) == [x \in DOMAIN d \cup {k} |-> IF x = k THEN v ELSE d[x]]

\* ------------------------------------------------------------ ledger loader
Digits == <<"0", "1", "2", "3", "4", "5", "6", "7", "8", "9">>
IsDigit(c) == \E d \in DOMAIN Digits : Digits[d] = c
DigitValue(c) == (CHOOSE d \in DOMAIN Digits : Digits[d] = c) - 1

\* text.replace(ch, "")
RECURSIVE replace(_, _)
replace(text, ch) ==
    IF text = <<>> THEN <<>>
    ELSE IF Head(text) = ch THEN replace(Tail(text), ch)
         ELSE <<Head(text)>> \o replace(Tail(text), ch)

RECURSIVE DigitsValue(_, _)
DigitsValue(text, acc) ==
    IF text = <<>> THEN acc
    ELSE DigitsValue(Tail(text), 10 * acc + DigitValue(Head(text)))

Unsigned(text) == IF text # <<>> /\ Head(text) \in {"-", "+"} THEN Tail(text) ELSE text
\* float(text) raises ValueError unless text is an optional sign and digits
floatRaises(text) ==
    Unsigned(text) = <<>> \/ \E i \in DOMAIN Unsigned(text) : ~IsDigit(Unsigned(text)[i])
\* float(text) on a whole amount
float(text) ==
    IF Head(text) = "-" THEN 0 - DigitsValue(Unsigned(text), 0)
    ELSE DigitsValue(Unsigned(text), 0)

\* cell.replace("€", "").replace(",", "")
Stripped(cell) == replace(replace(cell, "€"), ",")

Person(name, current_balance, total_debit, total_paid) ==
    [name |-> name, current_balance |-> current_balance,
     total_debit |-> total_debit, total_paid |-> total_paid]

\* data.loc[data[name_col] == name].iloc[0]: the first row with that name, 0 if none
FirstRow(name, data) ==
    LET hits == { i \in DOMAIN data : data[i].Name = name }
    IN IF hits = {} THEN 0 ELSE CHOOSE i \in hits : \A j \in hits : i <= j

process_detailsRaises(name, data) ==
    /\ FirstRow(name, data) # 0
    /\ LET row == data[FirstRow(name, data)]
       IN \/ floatRaises(Stripped(row.Balance))
          \/ floatRaises(Stripped(row.Total))
          \/ floatRaises(Stripped(row.Paid))

process_details(name, data) ==
    IF FirstRow(name, data) = 0 THEN Person(name, 0, 0, 0)
    ELSE LET row == data[FirstRow(name, data)]
         IN Person(name, float(Stripped(row.Balance)), float(Stripped(row.Total)),
                   float(Stripped(row.Paid)))

\* sheet[:-3]
WithoutFooter(sheet) == SubSeq(sheet, 1, Len(sheet) - FooterRows)

\* a ValueError of one row leaves the whole function
get_people_dataRaises(sheet) ==
    \E i \in DOMAIN WithoutFooter(sheet) :
        process_detailsRaises(WithoutFooter(sheet)[i].Name, WithoutFooter(sheet))

\* one process_details per entry of the name column, in row order
get_people_data(sheet) ==
    LET spreadsheet_data == WithoutFooter(sheet)
    IN [i \in DOMAIN spreadsheet_data |->
           process_details(spreadsheet_data[i].Name, spreadsheet_data)]

\* ------------------------------------------------------------ classifier
\* a comparison that lets the settled in: <= for <
IsDebtorOrSettled(person) == person.current_balance <= 0
IsDebtor(person) == person.current_balance < 0
IsPrepaid(person) == person.current_balance > 0

get_all_debtors(people) == SelectSeq(people, IsDebtor)
get_all_prepaid(people) == SelectSeq(people, IsPrepaid)

Sheets == { body \o Footer : body \in SeqsUpTo(SheetRows, MaxLedger) }
Rosters == SeqsUpTo(SlackMembers, MaxRoster)

\* ------------------------------------------------------------ state
VARIABLES
    PING_EXCLUDED_LIST,       \* list of names
    PING_TIMES_PER_PLAYER,    \* dict name -> recurrence
    PING_LIST,                \* list of (debtor, slack_person) pairs
    REMINDERS,                \* dict name -> reminder handle
    slack_reminders,          \* the reminders the Slack workspace holds; a handle is a position
    pc,                       \* where the request in progress stands
    command, user_real_name, data_text,   \* the request: route, actor, form field "text"
    debtors, slack_people, reminders, i,  \* locals of ping_players
    players_being_reminded, players_already_reminded, players_unreachable,
    text,                     \* the reply being built
    sent,                     \* replies posted for the request
    requests,                 \* reminders_add calls made by the request
    reminders_before,         \* REMINDERS as the request found it
    stale,                    \* a toggle-off cleared the registries while the request was under way
    parked,                   \* the request of the other worker thread, while it does not run
    ledger                    \* a load and classification of one sheet, taken on their own

registry == <<PING_EXCLUDED_LIST, PING_TIMES_PER_PLAYER, PING_LIST, REMINDERS>>
request == <<command, user_real_name, data_text>>
locals == <<debtors, slack_people, reminders, i,
            players_being_reminded, players_already_reminded, players_unreachable>>
vars == <<registry, slack_reminders, pc, request, locals, text, sent, requests, reminders_before,
          stale, parked, ledger>>

\* what a worker thread holds of its request
Thread(at) ==
    [pc |-> at, command |-> "", user_real_name |-> "", data_text |-> "",
     debtors |-> <<>>, slack_people |-> <<>>, reminders |-> <<>>, i |-> 1,
     players_being_reminded |-> <<>>, players_already_reminded |-> <<>>,
     players_unreachable |-> <<>>, text |-> "", sent |-> 0, requests |-> <<>>,
     reminders_before |-> EmptyDict, stale |-> FALSE]

\* the ledger functions before they are applied
LedgerOff == [pc |-> "off", sheet |-> <<>>, people |-> <<>>, debtors |-> <<>>, prepaid |-> <<>>]

DENIED == "This command can only be run by the Ranelagh TREASURERS"

Fresh ==
    /\ PING_EXCLUDED_LIST = <<>>
    /\ PING_TIMES_PER_PLAYER = DictSet(EmptyDict, TREASURER, "next Monday at 14:00")
    /\ PING_LIST = <<>>
    /\ REMINDERS = EmptyDict
    /\ slack_reminders = <<>>
    /\ pc = "idle"
    /\ command = "" /\ user_real_name = "" /\ data_text = ""
    /\ debtors = <<>> /\ slack_people = <<>> /\ reminders = <<>> /\ i = 1
    /\ players_being_reminded = <<>>
    /\ players_already_reminded = <<>>
    /\ players_unreachable = <<>>
    /\ text = ""
    /\ sent = 0
    /\ requests = <<>>
    /\ reminders_before = EmptyDict
    /\ stale = FALSE

\* the process after import, serving one request at a time
Init ==
    /\ Fresh
    /\ parked = Thread("none")
    /\ ledger = LedgerOff

\* ------------------------------------------------------------ helpers of the handlers
\* the membership test left out: anyone passes for a treasurer
InTreasurersAnyone(name) == TRUE
\* user_real_name in TREASURERS
InTreasurers(name) == name \in Range(TREASURERS)
\* user_real_name == TREASURERS: a str compared with a list
EqualsTreasurers(name) == FALSE

\* the check left out: every name passes for one without a reminder
NoReminderUnchecked(R, name) == TRUE
\* REMINDERS.get(name, None) is None
NoReminder(R, name) == name \notin DOMAIN R
\* the lookup left out: the default is written over whatever the name has
NoTimeAlways(T, name) == TRUE
\* not PING_TIMES_PER_PLAYER.get(name)
NoTime(T, name) == name \notin DOMAIN T \/ T[name] = ""

\* the first member whose real_name is name, 0 if none
FirstMember(members, name) ==
    LET hits == { k \in DOMAIN members : members[k].real_name = name }
    IN IF hits = {} THEN 0 ELSE CHOOSE k \in hits : \A j \in hits : k <= j

\* the (person, slack_person) pairs the correlation loop appends to PING_LIST
Correlated(persons, members) ==
    LET Found(person) == FirstMember(members, person.name) # 0
        found == SelectSeq(persons, Found)
    IN [k \in DOMAIN found |->
           <<found[k], members[FirstMember(members, found[k].name)]>>]

\* the persons the correlation loop appends to players_unreachable
Unreachable(persons, members) ==
    LET Missing(person) == FirstMember(members, person.name) = 0
    IN SelectSeq(persons, Missing)

Reminder(name, txt, id, recurrence) ==
    [name |-> name, text |-> txt, id |-> id, recurrence |-> recurrence]

\* the loop of build_reminders over list, from the schedule times on: the
\* schedule it leaves and the reminders it returns (text carries the balance)
RECURSIVE build_reminders(_, _, _)
build_reminders(list, times, acc) ==
    IF list = <<>> THEN [times |-> times, reminders |-> acc]
    ELSE LET debtor == Head(list)[1]
             person == Head(list)[2]
             times2 == IF NoTime(times, debtor.name)
                       THEN DictSet(times, debtor.name, DEFAULT_TIME)
                       ELSE times
         IN build_reminders(Tail(list), times2,
                Append(acc, Reminder(debtor.name, debtor.current_balance,
                                     person.id, times2[debtor.name])))

\* [person for person in PING_EXCLUDED_LIST if person != person_to_add]
Without(list, name) == LET Other(n) == n # name IN SelectSeq(list, Other)

\* one PING_EXCLUDED_LIST.append(name) per member called name
RECURSIVE AppendPerMatch(_, _, _)
AppendPerMatch(list, members, name) ==
    IF members = <<>> THEN list
    ELSE AppendPerMatch(IF Head(members).real_name = name THEN Append(list, name) ELSE list,
                        Tail(members), name)

\* the texts a request may carry in its form field "text"
Texts(cmd) ==
    IF cmd = "ping" THEN Toggles
    ELSE IF cmd = "ping_adjust_time" THEN { a.info : a \in AdjustInfos }
    ELSE Names

\* info.split(",")
split(info) == (CHOOSE a \in AdjustInfos : a.info = info).parts

\* ------------------------------------------------------------ a request arrives
\* Flask routes a POST to its handler; the handler reads the form and asks
\* Slack for the actor's real name
Start ==
    /\ pc \in {"idle", "done", "raised"}
    /\ pc # "idle" => parked.pc = "none"
    /\ \E cmd \in Commands, actor \in Actors :
         \E txt \in Texts(cmd) :
            /\ command' = cmd
            /\ user_real_name' = actor
            /\ data_text' = txt
    /\ pc' = "handler"
    /\ debtors' = <<>> /\ slack_people' = <<>> /\ reminders' = <<>> /\ i' = 1
    /\ players_being_reminded' = <<>>
    /\ players_already_reminded' = <<>>
    /\ players_unreachable' = <<>>
    /\ text' = ""
    /\ sent' = 0
    /\ requests' = <<>>
    /\ reminders_before' = REMINDERS
    /\ stale' = FALSE
    /\ ledger' = LedgerOff
    /\ UNCHANGED <<registry, slack_reminders, parked>>

\* ------------------------------------------------------------ /ping
\* the actor is not one of TREASURERS
PingDenied ==
    /\ pc = "handler" /\ command = "ping"
    /\ ~InTreasurers(user_real_name)
    /\ text' = DENIED
    /\ pc' = "send"
    /\ UNCHANGED <<registry, slack_reminders, request, locals, sent, requests, reminders_before>>
    /\ UNCHANGED <<stale, parked, ledger>>

\* a toggle-on run that has loaded its ledger and not ended
UnderWay(at) == at \in {"roster", "correlate", "build", "loop", "adding"}

\* a toggle-off that forgets PING_TIMES_PER_PLAYER.clear()
PingOffKeepsTimes ==
    /\ pc = "handler" /\ command = "ping"
    /\ InTreasurers(user_real_name)
    /\ data_text = "off"
    /\ PING_EXCLUDED_LIST' = <<>>
    /\ PING_LIST' = <<>>
    /\ REMINDERS' = EmptyDict
    /\ pc' = "send"
    /\ UNCHANGED <<PING_TIMES_PER_PLAYER, slack_reminders, request, locals, text, sent,
                   requests, reminders_before>>
    /\ parked' = [parked EXCEPT !.stale = parked.stale \/ UnderWay(parked.pc)]
    /\ UNCHANGED <<stale, ledger>>

\* toggle == "off": the four registries are cleared
PingOff ==
    /\ pc = "handler" /\ command = "ping"
    /\ InTreasurers(user_real_name)
    /\ data_text = "off"
    /\ PING_EXCLUDED_LIST' = <<>>
    /\ PING_TIMES_PER_PLAYER' = EmptyDict
    /\ PING_LIST' = <<>>
    /\ REMINDERS' = EmptyDict
    /\ pc' = "send"
    /\ UNCHANGED <<slack_reminders, request, locals, text, sent, requests, reminders_before>>
    /\ parked' = [parked EXCEPT !.stale = parked.stale \/ UnderWay(parked.pc)]
    /\ UNCHANGED <<stale, ledger>>

\* toggle is neither "on" nor "off": nothing is done, the reply is empty
PingOther ==
    /\ pc = "handler" /\ command = "ping"
    /\ InTreasurers(user_real_name)
    /\ data_text \notin {"on", "off"}
    /\ pc' = "send"
    /\ UNCHANGED <<registry, slack_reminders, request, locals, text, sent, requests, reminders_before>>
    /\ UNCHANGED <<stale, parked, ledger>>

\* a toggle-on that empties PING_LIST before it loads, so that a failed load
\* has already done something
PingLoadClearsFirst ==
    /\ pc = "handler" /\ command = "ping"
    /\ InTreasurers(user_real_name)
    /\ data_text = "on"
    /\ \/ /\ \E sheet \in Sheets :
               /\ ~get_people_dataRaises(sheet)
               /\ debtors' = get_all_debtors(get_people_data(sheet))
          /\ pc' = "roster"
          /\ UNCHANGED <<PING_LIST, ledger>>
       \/ /\ pc' = "raised"
          /\ PING_LIST' = <<>>
          /\ ledger' = [LedgerOff EXCEPT !.pc = "raised"]
          /\ UNCHANGED debtors
    /\ UNCHANGED <<PING_EXCLUDED_LIST, PING_TIMES_PER_PLAYER, REMINDERS, slack_reminders,
                   request, slack_people, reminders, i,
                   players_being_reminded, players_already_reminded, players_unreachable,
                   text, sent, requests, reminders_before>>
    /\ UNCHANGED <<stale, parked>>

\* toggle == "on": get_people_data() and get_all_debtors(people); the fetch
\* or the parse of a cell may raise, which ledger.pc records
PingLoad ==
    /\ pc = "handler" /\ command = "ping"
    /\ InTreasurers(user_real_name)
    /\ data_text = "on"
    /\ \/ /\ \E sheet \in Sheets :
               /\ ~get_people_dataRaises(sheet)
               /\ debtors' = get_all_debtors(get_people_data(sheet))
          /\ pc' = "roster"
          /\ UNCHANGED ledger
       \/ /\ \E sheet \in Sheets : get_people_dataRaises(sheet)
          /\ pc' = "raised"
          /\ ledger' = [LedgerOff EXCEPT !.pc = "raised"]
          /\ UNCHANGED debtors
       \/ /\ pc' = "raised"
          /\ ledger' = [LedgerOff EXCEPT !.pc = "raised"]
          /\ UNCHANGED debtors
    /\ UNCHANGED <<registry, slack_reminders, request, slack_people, reminders, i,
                   players_being_reminded, players_already_reminded, players_unreachable,
                   text, sent, requests, reminders_before>>
    /\ UNCHANGED <<stale, parked>>

\* client.users_list().get("members"); the call may raise
PingRoster ==
    /\ pc = "roster"
    /\ \/ /\ \E members \in Rosters :
               /\ Len(PING_LIST) + Len(Correlated(debtors, members)) <= MaxPingList
               /\ slack_people' = members
          /\ pc' = "correlate"
       \/ /\ pc' = "raised"
          /\ UNCHANGED slack_people
    /\ UNCHANGED <<registry, slack_reminders, request, debtors, reminders, i,
                   players_being_reminded, players_already_reminded, players_unreachable,
                   text, sent, requests, reminders_before>>
    /\ UNCHANGED <<stale, parked, ledger>>

\* correlate debtors to slack names: matches go to PING_LIST, the rest to
\* players_unreachable
PingCorrelate ==
    /\ pc = "correlate"
    /\ PING_LIST' = PING_LIST \o Correlated(debtors, slack_people)
    /\ players_unreachable' = Unreachable(debtors, slack_people)
    /\ pc' = "build"
    /\ UNCHANGED <<PING_EXCLUDED_LIST, PING_TIMES_PER_PLAYER, REMINDERS, slack_reminders,
                   request, debtors, slack_people, reminders, i,
                   players_being_reminded, players_already_reminded,
                   text, sent, requests, reminders_before>>
    /\ UNCHANGED <<stale, parked, ledger>>

\* reminders = build_reminders(): one Reminder per entry of PING_LIST
PingBuild ==
    /\ pc = "build"
    /\ LET built == build_reminders(PING_LIST, PING_TIMES_PER_PLAYER, <<>>)
       IN /\ PING_TIMES_PER_PLAYER' = built.times
          /\ reminders' = built.reminders
    /\ i' = 1
    /\ pc' = "loop"
    /\ UNCHANGED <<PING_EXCLUDED_LIST, PING_LIST, REMINDERS, slack_reminders,
                   request, debtors, slack_people,
                   players_being_reminded, players_already_reminded, players_unreachable,
                   text, sent, requests, reminders_before>>
    /\ UNCHANGED <<stale, parked, ledger>>

\* one turn of "for reminder in reminders", up to the call of reminders_add
PingRemind ==
    /\ pc = "loop" /\ i <= Len(reminders)
    /\ LET reminder == reminders[i]
       IN IF reminder.name \notin Range(PING_EXCLUDED_LIST)
          THEN IF NoReminder(REMINDERS, reminder.name)
               THEN /\ requests' = Append(requests, reminder)
                    /\ pc' = "adding"
                    /\ UNCHANGED <<players_already_reminded, i>>
               ELSE /\ players_already_reminded' =
                           Append(players_already_reminded, reminder.name)
                    /\ i' = i + 1
                    /\ pc' = "loop"
                    /\ UNCHANGED requests
          ELSE /\ i' = i + 1
               /\ pc' = "loop"
               /\ UNCHANGED <<players_already_reminded, requests>>
    /\ UNCHANGED <<registry, slack_reminders, request, debtors, slack_people, reminders,
                   players_being_reminded, players_unreachable,
                   text, sent, reminders_before>>
    /\ UNCHANGED <<stale, parked, ledger>>

\* reminders_add returns the handle, which goes to REMINDERS[reminder.name],
\* or raises
PingAdded ==
    /\ pc = "adding"
    /\ LET reminder == reminders[i]
       IN \/ /\ Len(slack_reminders) < MaxSlack
             /\ slack_reminders' = Append(slack_reminders, reminder.id)
             /\ REMINDERS' = DictSet(REMINDERS, reminder.name, Len(slack_reminders) + 1)
             /\ players_being_reminded' = Append(players_being_reminded, reminder)
             /\ i' = i + 1
             /\ pc' = "loop"
          \/ /\ pc' = "raised"
             /\ UNCHANGED <<slack_reminders, REMINDERS, players_being_reminded, i>>
    /\ UNCHANGED <<PING_EXCLUDED_LIST, PING_TIMES_PER_PLAYER, PING_LIST,
                   request, debtors, slack_people, reminders,
                   players_already_reminded, players_unreachable,
                   text, sent, requests, reminders_before>>
    /\ UNCHANGED <<stale, parked, ledger>>

SUMMARY == "Reminded / Skipped reminding / Couldn't find this person"

\* the reply lists players_being_reminded, players_already_reminded and
\* players_unreachable, in that order
PingSummary ==
    /\ pc = "loop" /\ i > Len(reminders)
    /\ text' = SUMMARY
    /\ pc' = "send"
    /\ UNCHANGED <<registry, slack_reminders, request, locals, sent, requests, reminders_before>>
    /\ UNCHANGED <<stale, parked, ledger>>

\* ------------------------------------------------------------ /ping_add
\* a treasurer takes person_to_add off PING_EXCLUDED_LIST if the roster has
\* the name; users_list may raise
PingAdd ==
    /\ pc = "handler" /\ command = "ping_add"
    /\ IF InTreasurers(user_real_name)
       THEN \/ /\ \E members \in Rosters :
                    PING_EXCLUDED_LIST' =
                        IF FirstMember(members, data_text) # 0
                        THEN Without(PING_EXCLUDED_LIST, data_text)
                        ELSE PING_EXCLUDED_LIST
               /\ text' = "Adding to the remind list"
               /\ pc' = "send"
            \/ /\ pc' = "raised"
               /\ UNCHANGED <<PING_EXCLUDED_LIST, text>>
       ELSE /\ text' = DENIED
            /\ pc' = "send"
            /\ UNCHANGED PING_EXCLUDED_LIST
    /\ UNCHANGED <<PING_TIMES_PER_PLAYER, PING_LIST, REMINDERS, slack_reminders,
                   request, locals, sent, requests, reminders_before>>
    /\ UNCHANGED <<stale, parked, ledger>>

\* ------------------------------------------------------------ /ping_remove
\* the guard compares the actor's name with the list TREASURERS
PingRemove ==
    /\ pc = "handler" /\ command = "ping_remove"
    /\ IF EqualsTreasurers(user_real_name)
       THEN \/ /\ \E members \in Rosters :
                    PING_EXCLUDED_LIST' =
                        AppendPerMatch(PING_EXCLUDED_LIST, members, data_text)
               /\ text' = "Skipping from future reminders"
               /\ pc' = "send"
            \/ /\ pc' = "raised"
               /\ UNCHANGED <<PING_EXCLUDED_LIST, text>>
       ELSE /\ text' = DENIED
            /\ pc' = "send"
            /\ UNCHANGED PING_EXCLUDED_LIST
    /\ UNCHANGED <<PING_TIMES_PER_PLAYER, PING_LIST, REMINDERS, slack_reminders,
                   request, locals, sent, requests, reminders_before>>
    /\ UNCHANGED <<stale, parked, ledger>>

\* ------------------------------------------------------------ /ping_adjust_time
\* the guard compares the actor's name with the list TREASURERS; name, time =
\* info.split(",") raises unless there are two parts, and the reply reads
\* PING_TIMES_PER_PLAYER[name], a KeyError when the name has no entry
PingAdjustTime ==
    /\ pc = "handler" /\ command = "ping_adjust_time"
    /\ IF EqualsTreasurers(user_real_name)
       THEN IF Len(split(data_text)) # 2
            THEN /\ pc' = "raised"
                 /\ UNCHANGED <<PING_TIMES_PER_PLAYER, text>>
            ELSE \/ \E members \in Rosters :
                      LET name == split(data_text)[1]
                          time == split(data_text)[2]
                          times == IF FirstMember(members, name) # 0
                                   THEN DictSet(PING_TIMES_PER_PLAYER, name, time)
                                   ELSE PING_TIMES_PER_PLAYER
                      IN /\ PING_TIMES_PER_PLAYER' = times
                         /\ IF name \in DOMAIN times
                            THEN text' = "adjusted reminders" /\ pc' = "send"
                            ELSE text' = text /\ pc' = "raised"
                 \/ /\ pc' = "raised"
                    /\ UNCHANGED <<PING_TIMES_PER_PLAYER, text>>
       ELSE /\ text' = DENIED
            /\ pc' = "send"
            /\ UNCHANGED PING_TIMES_PER_PLAYER
    /\ UNCHANGED <<PING_EXCLUDED_LIST, PING_LIST, REMINDERS, slack_reminders,
                   request, locals, sent, requests, reminders_before>>
    /\ UNCHANGED <<stale, parked, ledger>>

\* ------------------------------------------------------------ the reply
\* send_message_to_slack(user_id, channel_name, channel_id, text)
SendMessage ==
    /\ pc = "send"
    /\ sent' = sent + 1
    /\ pc' = "done"
    /\ UNCHANGED <<registry, slack_reminders, request, locals, text, requests, reminders_before>>
    /\ UNCHANGED <<stale, parked, ledger>>

Next ==
    \/ Start
    \/ PingDenied
    \/ PingOff
    \/ PingOther
    \/ PingLoad
    \/ PingRoster
    \/ PingCorrelate
    \/ PingBuild
    \/ PingRemind
    \/ PingAdded
    \/ PingSummary
    \/ PingAdd
    \/ PingRemove
    \/ PingAdjustTime
    \/ SendMessage

Spec == Init /\ [][Next]_vars

\* ------------------------------------------------------------ two worker threads
\* app.run serves each request on a thread of its own and the handlers take
\* no lock: a second request is handled while the first waits on an external
\* call. Each of the two threads serves one request.
InitConc ==
    /\ Fresh
    /\ parked = Thread("idle")
    /\ ledger = LedgerOff

\* the running thread is put aside and the other one goes on
Switch ==
    /\ parked.pc \notin {"none", "done", "raised"}
    /\ parked' = [pc |-> pc, command |-> command, user_real_name |-> user_real_name,
                  data_text |-> data_text, debtors |-> debtors,
                  slack_people |-> slack_people, reminders |-> reminders, i |-> i,
                  players_being_reminded |-> players_being_reminded,
                  players_already_reminded |-> players_already_reminded,
                  players_unreachable |-> players_unreachable, text |-> text,
                  sent |-> sent, requests |-> requests,
                  reminders_before |-> reminders_before, stale |-> stale]
    /\ pc' = parked.pc
    /\ command' = parked.command
    /\ user_real_name' = parked.user_real_name
    /\ data_text' = parked.data_text
    /\ debtors' = parked.debtors
    /\ slack_people' = parked.slack_people
    /\ reminders' = parked.reminders
    /\ i' = parked.i
    /\ players_being_reminded' = parked.players_being_reminded
    /\ players_already_reminded' = parked.players_already_reminded
    /\ players_unreachable' = parked.players_unreachable
    /\ text' = parked.text
    /\ sent' = parked.sent
    /\ requests' = parked.requests
    /\ reminders_before' = parked.reminders_before
    /\ stale' = parked.stale
    /\ UNCHANGED <<registry, slack_reminders, ledger>>

NextConc ==
    \/ Next
    \/ Switch

SpecConc == InitConc /\ [][NextConc]_vars

\* ------------------------------------------------------------ the ledger functions alone
\* get_people_data, get_all_debtors and get_all_prepaid applied to one sheet,
\* as /owe and /ping apply them (lines 229-233, 457-458)
BalanceTexts == { <<"-", "€", "4", "0">>, <<"-", "€", "2", "0">>, <<"€", "1", "0">>,
                  <<"€", "0">>, <<"n", "/", "a">> }
LedgerNames == Names \cup {"Bea"}
LedgerRows == { Row(n, b) : n \in LedgerNames, b \in BalanceTexts }
LedgerSheets == { body \o Footer : body \in SeqsUpTo(LedgerRows, MaxLedger + 1) }

InitLedger ==
    /\ Fresh
    /\ parked = Thread("none")
    /\ \E sheet \in LedgerSheets : ledger = [LedgerOff EXCEPT !.pc = "start", !.sheet = sheet]

\* people = get_people_data(); a cell float() cannot read raises
LedgerLoad ==
    /\ ledger.pc = "start"
    /\ ledger' = IF get_people_dataRaises(ledger.sheet)
                 THEN [ledger EXCEPT !.pc = "raised"]
                 ELSE [ledger EXCEPT !.pc = "loaded", !.people = get_people_data(ledger.sheet)]
    /\ UNCHANGED <<registry, slack_reminders, pc, request, locals, text, sent, requests,
                   reminders_before, stale, parked>>

\* debtors = get_all_debtors(people); prepaid = get_all_prepaid(people)
LedgerClassify ==
    /\ ledger.pc = "loaded"
    /\ ledger' = [ledger EXCEPT !.pc = "classified",
                                !.debtors = get_all_debtors(ledger.people),
                                !.prepaid = get_all_prepaid(ledger.people)]
    /\ UNCHANGED <<registry, slack_reminders, pc, request, locals, text, sent, requests,
                   reminders_before, stale, parked>>

NextLedger ==
    \/ LedgerLoad
    \/ LedgerClassify

SpecLedger == InitLedger /\ [][NextLedger]_vars

\* ------------------------------------------------------------ types
TypeOK ==
    /\ PING_EXCLUDED_LIST \in Seq(Names)
    /\ DOMAIN PING_TIMES_PER_PLAYER \subseteq Names
    /\ Len(PING_LIST) <= MaxPingList
    /\ DOMAIN REMINDERS \subseteq Names
    /\ Len(slack_reminders) <= MaxSlack
    /\ pc \in {"idle", "handler", "roster", "correlate", "build", "loop", "adding", "send", "done", "raised"}
    /\ sent \in 0..1

\* ------------------------------------------------------------ properties
ToggleOnRun == command = "ping" /\ data_text = "on" /\ InTreasurers(user_real_name)
ToggleOffRun == command = "ping" /\ data_text = "off" /\ InTreasurers(user_real_name)
Ended == pc \in {"done", "raised"}
\* a reminders_add call of the request raised
CreationFailed == Len(requests) > Len(players_being_reminded)
\* how often name is reported in the summary of the run
Count(seq, name) == Cardinality({ k \in DOMAIN seq : seq[k] = name })
NamesOf(seq) == [k \in DOMAIN seq |-> seq[k].name]
Reported(name) ==
    Count(NamesOf(players_being_reminded), name) + Count(players_already_reminded, name)
        + Count(NamesOf(players_unreachable), name)

\* C1: a reminders_add call is made for a name only when REMINDERS holds no
\* handle for that name, so no second reminder is requested for a name while
\* one is registered; REMINDERS, a dict, holds one handle per name.
C1_RequestOnlyWithoutActive ==
    [][requests' # requests /\ requests' # <<>>
         => requests'[Len(requests')].name \notin DOMAIN REMINDERS]_vars

\* C1 witness: a run has skipped a name that had a reminder and requested one
\* for a name that had none.
C1_Witness ==
    /\ pc = "done" /\ ToggleOnRun
    /\ players_already_reminded # <<>>
    /\ players_being_reminded # <<>>

\* C2: when a toggle-on call has ended, every debtor of the call that had a
\* reminder on arrival is not among the created ones, is reported as already
\* reminded in the reply, and keeps the handle it had.
C2_SecondToggleOnSkipsActive ==
    (Ended /\ ToggleOnRun) =>
        \A k \in DOMAIN debtors :
            debtors[k].name \in DOMAIN reminders_before =>
                /\ Count(NamesOf(players_being_reminded), debtors[k].name) = 0
                /\ Count(players_already_reminded, debtors[k].name) > 0
                /\ sent = 1
                /\ debtors[k].name \in DOMAIN REMINDERS
                /\ REMINDERS[debtors[k].name] = reminders_before[debtors[k].name]

\* C3: a toggle-on run makes no reminders_add call for a name that is in
\* PING_EXCLUDED_LIST, and registers no handle for it.
C3_ExcludedNeverRequested ==
    [][requests' # requests /\ requests' # <<>>
         => requests'[Len(requests')].name \notin Range(PING_EXCLUDED_LIST)]_vars

\* C3, C4: no command ever puts a name in PING_EXCLUDED_LIST.
ExclusionStaysEmpty == Len(PING_EXCLUDED_LIST) = 0

\* C4: after a treasurer's /ping_remove for a name the roster can hold, the
\* name is in PING_EXCLUDED_LIST.
C4_TreasurerExcludes ==
    (Ended /\ command = "ping_remove" /\ InTreasurers(user_real_name)
           /\ data_text \in { m.real_name : m \in SlackMembers })
        => data_text \in Range(PING_EXCLUDED_LIST)

\* C5: once a treasurer's toggle-off has cleared, REMINDERS holds no name,
\* PING_TIMES_PER_PLAYER holds no override (the built-in one of TREASURER
\* included) and PING_EXCLUDED_LIST is empty.
C5_ToggleOffClearsAll ==
    (pc \in {"send", "done"} /\ ToggleOffRun) =>
        /\ DOMAIN REMINDERS = {}
        /\ DOMAIN PING_TIMES_PER_PLAYER = {}
        /\ Len(PING_EXCLUDED_LIST) = 0

\* C5 witness: a toggle-off has ended that found reminders registered.
C5_Witness ==
    /\ pc = "done" /\ ToggleOffRun
    /\ DOMAIN reminders_before # {}
    /\ DOMAIN REMINDERS = {}

\* C6: the Slack workspace never holds two reminders for the same user, and
\* every reminder it holds is the handle REMINDERS records for some name.
C6_NoDuplicateNoOrphan ==
    /\ \A g, h \in DOMAIN slack_reminders :
           slack_reminders[g] = slack_reminders[h] => g = h
    /\ \A h \in DOMAIN slack_reminders :
           \E n \in DOMAIN REMINDERS : REMINDERS[n] = h

\* C7: when a toggle-on run over debtors of distinct names has replied, every
\* debtor of the run is reported exactly once in the summary.
C7_OneOutcomePerDebtor ==
    (pc = "done" /\ ToggleOnRun
        /\ \A j, k \in DOMAIN debtors : debtors[j].name = debtors[k].name => j = k)
    => \A k \in DOMAIN debtors : Reported(debtors[k].name) = 1

\* C8: every reminders_add call of a toggle-on run, and every name its summary
\* reports, is for a debtor of the ledger that run loaded, with the balance of
\* that load.
C8_OnlyDebtorsOfThisLoad ==
    ToggleOnRun =>
        /\ \A r \in DOMAIN requests :
               \E k \in DOMAIN debtors :
                   /\ debtors[k].name = requests[r].name
                   /\ debtors[k].current_balance = requests[r].text
        /\ \A s \in DOMAIN players_already_reminded :
               \E k \in DOMAIN debtors : debtors[k].name = players_already_reminded[s]

\* C9: a toggle-on run in which a reminders_add call raised still ends with
\* every reminder of the run processed and the reply sent, and the debtor of
\* the failed call has no handle in REMINDERS.
C9_FailureDoesNotAbort ==
    (Ended /\ ToggleOnRun /\ CreationFailed) =>
        /\ pc = "done"
        /\ i > Len(reminders)
        /\ sent = 1
        /\ \A r \in DOMAIN requests :
               requests[r] \notin Range(players_being_reminded)
                   => requests[r].name \notin DOMAIN REMINDERS

\* C10: a request that has ended has been answered with exactly one reply.
C10_OneReplyPerRequest ==
    Ended => sent = 1

\* C11: while the request in progress comes from an actor who is not in
\* TREASURERS, no step changes PING_EXCLUDED_LIST, PING_TIMES_PER_PLAYER,
\* PING_LIST, REMINDERS or the reminders at Slack, no reminders_add call is
\* made, and the request ends replied to with the denial text.
C11_StrangerChangesNothing ==
    [][user_real_name' \notin Range(TREASURERS) =>
          /\ UNCHANGED <<registry, slack_reminders>>
          /\ requests' = <<>>
          /\ pc' # "raised"
          /\ pc' \in {"send", "done"} => text' = DENIED
          /\ pc' = "done" => sent' = 1]_vars

\* C11 witness: a request of an actor outside TREASURERS has ended with the
\* denial while reminders were registered.
C11_Witness ==
    /\ pc = "done"
    /\ user_real_name \notin Range(TREASURERS)
    /\ text = DENIED
    /\ DOMAIN REMINDERS # {}
    /\ Len(PING_LIST) > 0

\* C12: the lookup of build_reminders gives a name without an entry the
\* default and stores it, gives a name with an entry that entry and leaves it
\* as it is, and an entry once stored stays until a toggle-off or an
\* adjustment, so that later lookups give the same recurrence.
C12_PersistOnRead ==
    [][/\ \A n \in DOMAIN PING_TIMES_PER_PLAYER :
              \/ /\ n \in DOMAIN PING_TIMES_PER_PLAYER'
                 /\ PING_TIMES_PER_PLAYER'[n] = PING_TIMES_PER_PLAYER[n]
              \/ pc = "handler" /\ command = "ping" /\ data_text = "off"
              \/ pc = "handler" /\ command = "ping_adjust_time"
       /\ (pc = "build" /\ pc' = "loop") =>
              \A k \in DOMAIN reminders' :
                  LET n == reminders'[k].name
                  IN /\ n \in DOMAIN PING_TIMES_PER_PLAYER'
                     /\ reminders'[k].recurrence = PING_TIMES_PER_PLAYER'[n]
                     /\ reminders'[k].recurrence =
                            IF n \in DOMAIN PING_TIMES_PER_PLAYER
                            THEN PING_TIMES_PER_PLAYER[n] ELSE DEFAULT_TIME]_vars

\* C12 witness: a later run has looked up Ana, who got the default stored by
\* an earlier run, and TREASURER, who has the built-in entry.
C12_Witness ==
    /\ pc = "loop"
    /\ "Ana" \in DOMAIN reminders_before
    /\ \E j, k \in DOMAIN reminders :
          /\ reminders[j].name = TREASURER
          /\ reminders[j].recurrence = "next Monday at 14:00"
          /\ reminders[k].name = "Ana"
          /\ reminders[k].recurrence = DEFAULT_TIME

\* C13: after a treasurer's /ping_adjust_time "name,time" for a name the
\* roster can hold, PING_TIMES_PER_PLAYER[name] is that time.
C13_TreasurerAdjusts ==
    (Ended /\ command = "ping_adjust_time" /\ user_real_name \in Range(TREASURERS)
           /\ Len(split(data_text)) = 2
           /\ split(data_text)[1] \in { m.real_name : m \in SlackMembers })
        => /\ split(data_text)[1] \in DOMAIN PING_TIMES_PER_PLAYER
           /\ PING_TIMES_PER_PLAYER[split(data_text)[1]] = split(data_text)[2]

\* C14: of two toggle-on requests handled at the same time, never both are
\* between the check of REMINDERS and the registration of the handle for the
\* same name, and no name is given a reminder by both.
C14_CheckAndRegisterExclusive ==
    /\ ~ /\ pc = "adding" /\ parked.pc = "adding"
         /\ reminders[i].name = parked.reminders[parked.i].name
    /\ \A n \in Names :
           Count(NamesOf(players_being_reminded \o parked.players_being_reminded), n) <= 1

\* C15: when a toggle-on run that was under way at a toggle-off has ended,
\* REMINDERS, PING_LIST and PING_TIMES_PER_PLAYER are still empty.
C15_ClearWins ==
    (stale /\ Ended) =>
        /\ DOMAIN REMINDERS = {}
        /\ Len(PING_LIST) = 0
        /\ DOMAIN PING_TIMES_PER_PLAYER = {}

\* out is what is left of in when only the positions in keep are kept, in the
\* order of in
KeepsInOrder(out, in, keep) ==
    \E f \in [1..Len(out) -> 1..Len(in)] :
        /\ \A j, k \in 1..Len(out) : j < k => f[j] < f[k]
        /\ \A k \in 1..Len(out) : out[k] = in[f[k]]
        /\ { f[k] : k \in 1..Len(out) } = keep

\* C16: the debtors are the people with a balance below 0 and the prepaid
\* those with a balance above 0, each in the order of the input; nobody is in
\* both lists, people with balance 0 are in neither, and the three groups
\* together are the whole input.
C16_ClassifierPartitions ==
    ledger.pc = "classified" =>
        LET people == ledger.people
            neg == { k \in DOMAIN people : people[k].current_balance < 0 }
            pos == { k \in DOMAIN people : people[k].current_balance > 0 }
            zero == { k \in DOMAIN people : people[k].current_balance = 0 }
        IN /\ KeepsInOrder(ledger.debtors, people, neg)
           /\ KeepsInOrder(ledger.prepaid, people, pos)
           /\ Range(ledger.debtors) \cap Range(ledger.prepaid) = {}
           /\ \A k \in zero : people[k] \notin Range(ledger.debtors) \cup Range(ledger.prepaid)
           /\ Len(ledger.debtors) + Len(ledger.prepaid) + Cardinality(zero) = Len(people)

\* C16 witness: a sheet with a debtor, a prepaid and a settled person has been
\* classified.
C16_Witness ==
    /\ ledger.pc = "classified"
    /\ Len(ledger.debtors) = 1
    /\ Len(ledger.prepaid) = 1
    /\ Len(ledger.people) = 3
    /\ ledger.people[2].current_balance = 0

\* C20: the load of a sheet does not raise, and returns a Person for every
\* row above the footer whose currency cells float() can read.
C20_BadRowSkipped ==
    ledger.pc \in {"raised", "loaded", "classified"} =>
        /\ ledger.pc # "raised"
        /\ \A k \in DOMAIN WithoutFooter(ledger.sheet) :
               ~floatRaises(Stripped(WithoutFooter(ledger.sheet)[k].Balance))
                   => \E p \in DOMAIN ledger.people :
                          ledger.people[p].name = WithoutFooter(ledger.sheet)[k].Name

\* the names of the debtors the run loaded
DebtorNames == { debtors[k].name : k \in DOMAIN debtors }

\* C17: when a treasurer's toggle-on run has replied, every debtor of the run
\* whose name the roster of the run holds has a handle in REMINDERS, and a
\* name that is no debtor of the run and had no handle when the run began has
\* none; when a treasurer's toggle-off has replied no name has a handle.
C17_ActiveAfterRun ==
    /\ (pc = "done" /\ ToggleOnRun) =>
           /\ \A k \in DOMAIN debtors :
                  FirstMember(slack_people, debtors[k].name) # 0
                      => debtors[k].name \in DOMAIN REMINDERS
           /\ \A n \in Names :
                  (n \notin DebtorNames /\ n \notin DOMAIN reminders_before)
                      => n \notin DOMAIN REMINDERS
    /\ (pc = "done" /\ ToggleOffRun) => DOMAIN REMINDERS = {}

\* C18: once a toggle-on run has correlated, a reminders_add call for a debtor
\* the roster holds carries the id of the first member of that name, and a
\* debtor the roster does not hold is in players_unreachable, has no
\* reminders_add call made for it and gets no handle in REMINDERS.
C18_ExactFirstMatch ==
    (ToggleOnRun /\ pc \in {"build", "loop", "adding", "send", "done"}) =>
        \A k \in DOMAIN debtors :
            LET name == debtors[k].name
                m == FirstMember(slack_people, name)
            IN IF m # 0
               THEN \A r \in DOMAIN requests :
                        requests[r].name = name => requests[r].id = slack_people[m].id
               ELSE /\ Count(NamesOf(players_unreachable), name) > 0
                    /\ \A r \in DOMAIN requests : requests[r].name # name
                    /\ name \notin DOMAIN reminders_before => name \notin DOMAIN REMINDERS

\* the place of a debtor of the run in the debtors it loaded
DebtorIndex(name) == CHOOSE k \in DOMAIN debtors : debtors[k].name = name

\* the debtors among names come in the order of debtors
InDebtorOrder(names) ==
    \A a, b \in DOMAIN names :
        (a < b /\ names[a] \in DebtorNames /\ names[b] \in DebtorNames)
            => DebtorIndex(names[a]) <= DebtorIndex(names[b])

\* C19: in the summary of a toggle-on run over debtors of distinct names, the
\* created, the skipped and the unreachable are each listed in the order of
\* the debtors the run loaded.
C19_SummaryInDebtorOrder ==
    (pc \in {"send", "done"} /\ ToggleOnRun
        /\ \A j, k \in DOMAIN debtors : debtors[j].name = debtors[k].name => j = k)
    => /\ InDebtorOrder(NamesOf(players_being_reminded))
       /\ InDebtorOrder(players_already_reminded)
       /\ InDebtorOrder(NamesOf(players_unreachable))

\* C21: a load that returns gives one Person per row above the last three
\* rows, in row order, and the Person of a row has the name of that row and
\* the debit and paid amounts of that row and the balance float() reads from
\* its Balance cell.
C21_OnePersonPerRow ==
    ledger.pc \in {"loaded", "classified"} =>
        LET rows == WithoutFooter(ledger.sheet)
        IN /\ Len(ledger.people) = Len(ledger.sheet) - FooterRows
           /\ \A k \in DOMAIN rows :
                  /\ ledger.people[k].name = rows[k].Name
                  /\ ~floatRaises(Stripped(rows[k].Balance)) =>
                         ledger.people[k].current_balance = float(Stripped(rows[k].Balance))
                  /\ ledger.people[k].total_debit = float(Stripped(rows[k].Total))
                  /\ ledger.people[k].total_paid = float(Stripped(rows[k].Paid))

\* C22: the step in which the load of a treasurer's toggle-on raises leaves
\* REMINDERS, PING_TIMES_PER_PLAYER, PING_EXCLUDED_LIST, PING_LIST and the
\* reminders at Slack as they were, REMINDERS being what the request found,
\* makes no reminders_add call, and the run does nothing after it.
C22_LoadFailureDoesNothing ==
    [][/\ (/\ pc = "handler" /\ command = "ping" /\ data_text = "on"
           /\ user_real_name \in Range(TREASURERS) /\ pc' = "raised")
          => /\ UNCHANGED <<registry, slack_reminders>>
             /\ REMINDERS' = reminders_before'
             /\ requests' = <<>>
       /\ (pc = "raised" /\ ledger.pc = "raised")
          => /\ pc' = "handler"
             /\ UNCHANGED <<registry, slack_reminders>>]_vars

\* C22 witness: the load of a treasurer's toggle-on has raised while
\* reminders were registered and PING_LIST held entries.
C22_Witness ==
    /\ pc = "raised" /\ ledger.pc = "raised"
    /\ ToggleOnRun
    /\ requests = <<>>
    /\ DOMAIN REMINDERS # {}
    /\ REMINDERS = reminders_before
    /\ Len(PING_LIST) > 0

====
